---- MODULE Spec2Model ----
(***************************************************************************)
(* The session gateway of the Axway MCP server (build/index.js):           *)
(* AxwayMcpServer keeps two maps keyed by session id, `transports` and     *)
(* `sessionTimestamps`; handleRequest classifies every HTTP request and    *)
(* routes it; cleanupOldSessions runs from a 5 minute interval timer; the  *)
(* onclose callback installed on each registered transport removes its     *)
(* entry.  handleRequest is an async function: it suspends while the body  *)
(* is read, at `await this.connect(transport)` and at                     *)
(* `await transport.handleRequest(...)`; everything between two            *)
(* suspension points is one atomic step of the event loop.                 *)
(***************************************************************************)
EXTENDS Integers, Sequences, FiniteSets, Bags, TLC

VARIABLES
    transports,         \* this.transports: session id -> transport object
    sessionTimestamps,  \* this.sessionTimestamps: session id -> Date.now()
    uuids,              \* number of randomUUID() calls made so far
    objects,            \* number of StreamableHTTPServerTransport objects built
    open,               \* transport objects started (connect) and not closed
    onclose,            \* transport object -> session id captured by its onclose
    now,                \* Date.now(), in milliseconds since construction
    calls,              \* bag of the invocations of handleRequest in progress
    last,               \* the step just taken and what it answered
    arrived,            \* number of requests received so far
    removedIds,         \* history: ids deleted from the registry
    evicted,            \* history: transport objects the Reaper dropped
    lastRequestAt,      \* history: registered id -> time of the last request bearing it
    argHeaders,         \* getSessionIdFromHeaders: its argument
    returned,           \* getSessionIdFromHeaders: what it returned
    invocations         \* the tool invocations of one batch, in the batch's order

\* The state of the session gateway.
gatewayVars == <<transports, sessionTimestamps, uuids, objects, open, onclose,
                 now, calls, last, arrived, removedIds, evicted, lastRequestAt>>

\* The state of a call of getSessionIdFromHeaders on its own.
headerVars == <<argHeaders, returned>>

\* The state of the tool handlers the transports call.
toolVars == <<invocations>>

vars == <<gatewayVars, headerVars, toolVars>>

(***************************************************************************)
(* Bounds of the model.                                                    *)
(***************************************************************************)
MaxRequests == 3    \* requests received in a run
MaxTicks == 2       \* clock advances in a run

(***************************************************************************)
(* Program constants.                                                      *)
(***************************************************************************)
SESSION_ID_HEADER_NAME == "mcp-session-id"
maxAge == 30 * 60 * 1000
sweepInterval == 5 * 60 * 1000

Undefined == "undefined"
NotCalled == "not called"
NoTransport == 0

\* The clock advances in quanta of six timer periods (which is maxAge), so the
\* interval timer comes due within every quantum.
TickMs == 6 * sweepInterval

(***************************************************************************)
(* Session ids.  randomUUID() returns a version 4 UUID; the n-th call is   *)
(* modelled by the n-th element of a pool of distinct strings.             *)
(***************************************************************************)
IdPool == <<"uuid-1", "uuid-2", "uuid-3", "uuid-4", "uuid-5", "uuid-6">>

\* Mutant: an id derived from the number of live sessions, which repeats.
liveCountId == IdPool[Cardinality(DOMAIN transports) + 1]

\* Mutant: a generator that returns the same id at every call.
repeatedUUID == IdPool[1]

randomUUID == IdPool[uuids + 1]

\* The ids a run can issue, which are also the ids a client may present.
Ids == {IdPool[i] : i \in 1..MaxRequests}

(***************************************************************************)
(* Maps (JavaScript objects used as dictionaries).                         *)
(***************************************************************************)
Put(m, k, v) == [x \in DOMAIN m \cup {k} |-> IF x = k THEN v ELSE m[x]]

Delete(m, ks) == [x \in DOMAIN m \ ks |-> m[x]]

Lookup(m, k) == IF k \in DOMAIN m THEN m[k] ELSE Undefined

\* `transports = {}` and `sessionTimestamps = {}` are plain objects: a property
\* read `m[k]` that finds no own property goes on to Object.prototype, whose
\* properties (constructor, toString, ...) are truthy and have no handleRequest.
ObjectPrototypeKeys == {"constructor"}

\* Truthiness of the read `m[k]` (own values here are objects, never falsy).
HasTruthy(m, k) == k \in DOMAIN m \/ k \in ObjectPrototypeKeys

EmptyMap == [x \in {} |-> Undefined]

\* JavaScript truthiness of a header value: undefined and "" are falsy.
Truthy(v) == v # Undefined /\ v # ""

(***************************************************************************)
(* Request headers.  node:http stores header names in lower case.          *)
(***************************************************************************)
HeaderNames == {"mcp-session-id", "MCP-SESSION-ID", "Mcp-Session-Id"}

toLowerCase(s) == IF s \in HeaderNames THEN "mcp-session-id" ELSE s

toUpperCase(s) == IF s \in HeaderNames THEN "MCP-SESSION-ID" ELSE s

getSessionIdFromHeaders(headers) ==
    LET variations == <<SESSION_ID_HEADER_NAME,
                        toLowerCase(SESSION_ID_HEADER_NAME),
                        toUpperCase(SESSION_ID_HEADER_NAME),
                        "mcp-session-id",
                        toLowerCase("mcp-session-id"),
                        toUpperCase("mcp-session-id")>>
        hits == {i \in DOMAIN variations : Truthy(Lookup(headers, variations[i]))}
    IN  IF hits = {} THEN Undefined
        ELSE headers[variations[CHOOSE i \in hits : \A j \in hits : i <= j]]

\* The headers node:http hands to the handler: lower-case names only.
HeaderValues == Ids \cup {"", "constructor"}

NodeHeaders ==
    {EmptyMap} \cup {[n \in {"mcp-session-id"} |-> v] : v \in HeaderValues}

(***************************************************************************)
(* Request bodies and JSON.parse.                                          *)
(***************************************************************************)
JsonNull == [t |-> "null", method |-> Undefined, items |-> <<>>]

JsonObject(m) == [t |-> "object", method |-> m, items |-> <<>>]

JsonArray(ms) == [t |-> "array", method |-> Undefined,
                  items |-> [i \in DOMAIN ms |-> JsonObject(ms[i])]]

JsonValues ==
    {JsonObject("initialize"), JsonObject("tools/call"),
     JsonArray(<<"tools/call", "initialize">>)}

\* A body is the empty string, the text of a JSON value, or text that is not JSON.
Bodies ==
    {[kind |-> "empty", value |-> JsonNull],
     [kind |-> "malformed", value |-> JsonNull]}
    \cup {[kind |-> "json", value |-> v] : v \in JsonValues}

\* const jsonBody = body ? JSON.parse(body) : null;  JSON.parse throws on bad text.
ParseBody(body) ==
    CASE body.kind = "empty" -> [threw |-> FALSE, json |-> JsonNull]
      [] body.kind = "malformed" -> [threw |-> TRUE, json |-> JsonNull]
      [] OTHER -> [threw |-> FALSE, json |-> body.value]

isInitializeRequest(body) ==
    LET check(data) == data.t = "object" /\ data.method = "initialize"
    IN  IF body.t = "array"
        THEN \E i \in DOMAIN body.items : check(body.items[i])
        ELSE check(body)

Methods == {"GET", "POST", "DELETE"}

Requests == [method : Methods, headers : NodeHeaders, body : Bodies]

(***************************************************************************)
(* Invocations of handleRequest.  pc is the suspension point an invocation *)
(* is parked at: "read" (the body is being read), "connect" (await         *)
(* this.connect(transport)), "transport" (await                            *)
(* transport.handleRequest(...)); tr is its transport, gen its             *)
(* generatedSessionId (undefined when it generated none), method is        *)
(* req.method, which the model draws when the body has been read.          *)
(* Invocations have no identity of their own, so the ones in progress form *)
(* a bag.                                                                  *)
(***************************************************************************)
Call(pc, tr, gen, json, method) ==
    [pc |-> pc, tr |-> tr, gen |-> gen, json |-> json, method |-> method]

Reading == Call("read", NoTransport, Undefined, JsonNull, Undefined)

Suspend(c, d) == (calls (-) SetToBag({c})) (+) SetToBag({d})

Return(c) == calls (-) SetToBag({c})

InProgress == BagToSet(calls)

\* What a step did: the request it handled and the answer the Dispatcher or
\* the server's error handler wrote (status 0: nothing written by them).
NoStep == [op |-> "start", method |-> Undefined, sessionId |-> Undefined,
           threw |-> FALSE, json |-> JsonNull, status |-> 0, error |-> "",
           allow |-> "", header |-> Undefined, forwardedTo |-> NoTransport,
           payload |-> JsonNull, generated |-> Undefined]

Init ==
    /\ transports = EmptyMap
    /\ sessionTimestamps = EmptyMap
    /\ uuids = 0
    /\ objects = 0
    /\ open = {}
    /\ onclose = EmptyMap
    /\ now = 0
    /\ calls = EmptyBag
    /\ last = NoStep
    /\ arrived = 0
    /\ removedIds = {}
    /\ evicted = {}
    /\ lastRequestAt = EmptyMap
    /\ argHeaders = EmptyMap
    /\ returned = NotCalled
    /\ invocations = <<>>

\* createServer's listener calls server.handleRequest(req, res), which runs up
\* to the `for await` that reads the body.  The request's content is read by
\* nothing before the body is complete; it is drawn when the read ends.
Arrive ==
    /\ arrived < MaxRequests
    /\ arrived' = arrived + 1
    /\ calls' = calls (+) SetToBag({Reading})
    /\ last' = [NoStep EXCEPT !.op = "arrive"]
    /\ UNCHANGED <<transports, sessionTimestamps, uuids, objects, open, onclose,
                   now, removedIds, evicted, lastRequestAt>>
    /\ UNCHANGED <<headerVars, toolVars>>

\* The catch of main's listener: 500 unless the response has ended.
InternalServerError(ev) ==
    [ev EXCEPT !.status = 500, !.error = "Internal Server Error"]

BadRequest(ev, error) == [ev EXCEPT !.status = 400, !.error = error]

MethodNotAllowed(ev) ==
    [ev EXCEPT !.status = 405, !.error = "Method Not Allowed",
               !.allow = "GET, POST"]

\* Mutant: the GET branch without its attach test.
GetRouteWithoutAttach(sessionId) ==
    IF Truthy(sessionId) THEN "invalidSession" ELSE "noSession"

\* The order of the tests of the GET branch.
GetRoute(sessionId) ==
    IF Truthy(sessionId) /\ HasTruthy(transports, sessionId) THEN "attach"
    ELSE IF Truthy(sessionId) /\ ~HasTruthy(transports, sessionId)
         THEN "invalidSession"
    ELSE "noSession"

\* Mutant: a POST without a session id creates a session whatever its payload.
PostRouteWithoutInitializeTest(sessionId, jsonBody) ==
    IF Truthy(sessionId) /\ HasTruthy(transports, sessionId) THEN "existing"
    ELSE IF ~Truthy(sessionId) THEN "create"
    ELSE "invalidSession"

\* Mutant: the initialize test comes first and ignores the session id.
PostRouteInitializeFirst(sessionId, jsonBody) ==
    IF isInitializeRequest(jsonBody) THEN "create"
    ELSE IF Truthy(sessionId) /\ HasTruthy(transports, sessionId) THEN "existing"
    ELSE IF Truthy(sessionId) THEN "invalidSession"
    ELSE "invalidRequest"

\* The order of the tests of the POST branch.
PostRoute(sessionId, jsonBody) ==
    IF Truthy(sessionId) /\ HasTruthy(transports, sessionId) THEN "existing"
    ELSE IF ~Truthy(sessionId) /\ isInitializeRequest(jsonBody) THEN "create"
    ELSE IF Truthy(sessionId) /\ ~HasTruthy(transports, sessionId)
         THEN "invalidSession"
    ELSE "invalidRequest"

\* A request is answered and its invocation ends without touching the registry.
Answer(c, ev) ==
    /\ calls' = Return(c)
    /\ last' = ev
    /\ UNCHANGED <<transports, sessionTimestamps, uuids, objects, open, onclose,
                   now, arrived, removedIds, evicted, lastRequestAt>>

\* this.transports[sessionId].handleRequest(req, res[, jsonBody]) is called:
\* on a registered transport the call starts and the invocation awaits it;
\* on a value inherited from Object.prototype it is a TypeError, which the
\* listener's catch answers with 500.
Forward(c, ev, sessionId) ==
    IF sessionId \in DOMAIN transports
    THEN /\ calls' = Suspend(c, Call("transport", transports[sessionId],
                                     Undefined, JsonNull, ev.method))
         /\ last' = [ev EXCEPT !.forwardedTo = transports[sessionId],
                               !.payload = ev.json]
         /\ lastRequestAt' = Put(lastRequestAt, sessionId, now)
    ELSE /\ calls' = Return(c)
         /\ last' = InternalServerError(ev)
         /\ UNCHANGED lastRequestAt

\* Mutant: the touch writes the epoch instead of the current time.
TouchEpoch(sessionId) == Put(sessionTimestamps, sessionId, 0)

\* Mutant: the touch stamps every session, not only the one named.
TouchEvery(sessionId) ==
    [x \in DOMAIN sessionTimestamps \cup {sessionId} |-> now]

\* this.sessionTimestamps[sessionId] = Date.now();
Touch(sessionId) == Put(sessionTimestamps, sessionId, now)

handleGET(c, ev) ==
    LET sessionId == ev.sessionId
        route == GetRoute(sessionId)
    IN  CASE route = "attach" ->
               /\ Forward(c, ev, sessionId)
               /\ UNCHANGED <<transports, sessionTimestamps, uuids, objects,
                              open, onclose, now, arrived, removedIds, evicted>>
          [] route = "invalidSession" ->
               Answer(c, BadRequest(ev, "Invalid session ID"))
          [] OTHER ->
               Answer(c, BadRequest(ev, "No session ID"))

handlePOST(c, ev) ==
    LET sessionId == ev.sessionId
        route == PostRoute(sessionId, ev.json)
    IN  CASE route = "existing" ->
               /\ sessionTimestamps' = Touch(sessionId)
               /\ Forward(c, ev, sessionId)
               /\ UNCHANGED <<transports, uuids, objects, open, onclose, now,
                              arrived, removedIds, evicted>>
          [] route = "create" ->
               \* randomUUID(), new StreamableHTTPServerTransport, and the call
               \* of this.connect(transport), which starts the transport.
               /\ uuids' = uuids + 1
               /\ objects' = objects + 1
               /\ open' = open \cup {objects + 1}
               /\ calls' = Suspend(c, Call("connect", objects + 1, randomUUID,
                                            ev.json, "POST"))
               /\ last' = [ev EXCEPT !.generated = randomUUID]
               /\ UNCHANGED <<transports, sessionTimestamps, onclose, now,
                              arrived, removedIds, evicted, lastRequestAt>>
          [] route = "invalidSession" ->
               Answer(c, BadRequest(ev, "Invalid session ID"))
          [] OTHER ->
               Answer(c, BadRequest(ev, "Invalid request"))

\* The body has been read: handleRequest runs from JSON.parse to its next
\* await or to its return, in one step.  The request is one of Requests; the
\* session id header is read inside the GET and POST branches only (so it is
\* drawn there), and jsonBody is used by the POST branch only.
Dispatch(c) ==
    /\ c.pc = "read"
    /\ UNCHANGED <<headerVars, toolVars>>
    /\ \E method \in Methods, body \in Bodies :
         LET parsed == ParseBody(body)
             ev == [NoStep EXCEPT !.op = "dispatch", !.method = method]
         IN  IF parsed.threw
             THEN Answer(c, InternalServerError([ev EXCEPT !.threw = TRUE]))
             ELSE IF method = "GET"
             THEN \E headers \in NodeHeaders :
                      handleGET(c, [ev EXCEPT !.sessionId =
                                        getSessionIdFromHeaders(headers)])
             ELSE IF method = "POST"
             THEN \E headers \in NodeHeaders :
                      handlePOST(c, [ev EXCEPT !.sessionId =
                                         getSessionIdFromHeaders(headers),
                                     !.json = parsed.json])
             ELSE Answer(c, MethodNotAllowed(ev))

\* Mutant: the session is stored without its timestamp.
RegisterWithoutTimestamp(sessionId, transport) ==
    /\ transports' = Put(transports, sessionId, transport)
    /\ sessionTimestamps' = sessionTimestamps
    /\ onclose' = Put(onclose, transport, sessionId)

\* Mutant: every session is stored with the first transport built.
RegisterFirstTransport(sessionId, transport) ==
    /\ transports' = Put(transports, sessionId, 1)
    /\ sessionTimestamps' = Put(sessionTimestamps, sessionId, now)
    /\ onclose' = Put(onclose, transport, sessionId)

\* What the invocation does when `await this.connect(transport)` resolves.
Register(sessionId, transport) ==
    /\ transports' = Put(transports, sessionId, transport)
    /\ sessionTimestamps' = Put(sessionTimestamps, sessionId, now)
    /\ onclose' = Put(onclose, transport, sessionId)

\* `await this.connect(transport)` resolves: the invocation registers the
\* session, installs onclose and calls transport.handleRequest, in one step.
ConnectResolved(c) ==
    LET transport == c.tr
        sessionId == c.gen    \* transport.sessionId = generatedSessionId
    IN  /\ c.pc = "connect"
        /\ Register(sessionId, transport)
        /\ calls' = Suspend(c, Call("transport", transport, sessionId, JsonNull,
                                     "POST"))
        /\ last' = [NoStep EXCEPT !.op = "register", !.method = "POST",
                        !.json = c.json, !.header = sessionId,
                        !.generated = sessionId, !.forwardedTo = transport,
                        !.payload = c.json]
        /\ lastRequestAt' = Put(lastRequestAt, sessionId, now)
        /\ UNCHANGED <<uuids, objects, open, now, arrived, removedIds, evicted>>
        /\ UNCHANGED <<headerVars, toolVars>>

\* `await this.connect(transport)` rejects: handleRequest throws before it
\* registers anything, and the listener's catch answers 500.
ConnectRejected(c) ==
    /\ c.pc = "connect"
    /\ calls' = Return(c)
    /\ last' = InternalServerError(
                   [NoStep EXCEPT !.op = "connectRejected", !.method = "POST",
                        !.json = c.json, !.generated = c.gen])
    /\ UNCHANGED <<transports, sessionTimestamps, uuids, objects, open,
                   onclose, now, arrived, removedIds, evicted, lastRequestAt>>
    /\ UNCHANGED <<headerVars, toolVars>>

\* `await transport.handleRequest(...)` resolves: the transport has answered.
TransportResolved(c) ==
    /\ c.pc = "transport"
    /\ calls' = Return(c)
    /\ last' = [NoStep EXCEPT !.op = "transportResolved"]
    /\ UNCHANGED <<transports, sessionTimestamps, uuids, objects, open,
                   onclose, now, arrived, removedIds, evicted, lastRequestAt>>
    /\ UNCHANGED <<headerVars, toolVars>>

\* `await transport.handleRequest(...)` rejects: the listener's catch answers
\* 500 (when the transport has not ended the response).
TransportRejected(c) ==
    /\ c.pc = "transport"
    /\ calls' = Return(c)
    /\ last' = InternalServerError([NoStep EXCEPT !.op = "transportRejected"])
    /\ UNCHANGED <<transports, sessionTimestamps, uuids, objects, open,
                   onclose, now, arrived, removedIds, evicted, lastRequestAt>>
    /\ UNCHANGED <<headerVars, toolVars>>

(***************************************************************************)
(* The Reaper: cleanupOldSessions, called by the interval timer.           *)
(***************************************************************************)
\* History: the ids a step deletes from this.transports.
Dropped == DOMAIN transports \ DOMAIN transports'

\* Mutant: a session is old as soon as its idle time reaches the timeout.
IsOldInclusive(t, timestamp) == t - timestamp >= maxAge

\* now - this.sessionTimestamps[sessionId] > maxAge
IsOld(t, timestamp) == t - timestamp > maxAge

OldSessions == {sessionId \in DOMAIN sessionTimestamps :
                    IsOld(now, sessionTimestamps[sessionId])}

\* Mutant: the sweep forgets `delete this.transports[sessionId]`.
cleanupTimestampsOnly ==
    /\ transports' = transports
    /\ sessionTimestamps' = Delete(sessionTimestamps, OldSessions)

cleanupOldSessions ==
    /\ transports' = Delete(transports, OldSessions)
    /\ sessionTimestamps' = Delete(sessionTimestamps, OldSessions)

Sweep ==
    /\ cleanupOldSessions
    /\ removedIds' = removedIds \cup Dropped
    /\ evicted' = evicted \cup {transports[s] : s \in Dropped}
    /\ lastRequestAt' = Delete(lastRequestAt, Dropped)
    /\ last' = [NoStep EXCEPT !.op = "sweep"]
    /\ UNCHANGED <<uuids, objects, open, onclose, now, calls, arrived>>
    /\ UNCHANGED <<headerVars, toolVars>>

\* Time passes.
Tick ==
    /\ now < MaxTicks * TickMs
    /\ now' = now + TickMs
    /\ last' = [NoStep EXCEPT !.op = "tick"]
    /\ UNCHANGED <<transports, sessionTimestamps, uuids, objects, open, onclose,
                   calls, arrived, removedIds, evicted, lastRequestAt>>
    /\ UNCHANGED <<headerVars, toolVars>>

(***************************************************************************)
(* A transport closes (transport.close()): it runs the onclose callback    *)
(* handleRequest installed, which deletes the captured session id.         *)
(***************************************************************************)
\* Mutant: the callback forgets `delete this.sessionTimestamps[sessionId]`.
oncloseTransportOnly(sessionId) ==
    /\ transports' = Delete(transports, {sessionId})
    /\ sessionTimestamps' = sessionTimestamps

oncloseHandler(sessionId) ==
    /\ transports' = Delete(transports, {sessionId})
    /\ sessionTimestamps' = Delete(sessionTimestamps, {sessionId})

Close(transport) ==
    /\ transport \in open
    /\ transport \in DOMAIN onclose
    /\ open' = open \ {transport}
    /\ oncloseHandler(onclose[transport])
    /\ removedIds' = removedIds \cup Dropped
    /\ lastRequestAt' = Delete(lastRequestAt, Dropped)
    /\ last' = [NoStep EXCEPT !.op = "close", !.sessionId = onclose[transport]]
    /\ UNCHANGED <<uuids, objects, onclose, now, calls, arrived, evicted>>
    /\ UNCHANGED <<headerVars, toolVars>>

Next ==
    \/ Arrive
    \/ \E c \in InProgress : Dispatch(c)
    \/ \E c \in InProgress : ConnectResolved(c)
    \/ \E c \in InProgress : ConnectRejected(c)
    \/ \E c \in InProgress : TransportResolved(c)
    \/ \E c \in InProgress : TransportRejected(c)
    \/ Sweep
    \/ Tick
    \/ \E transport \in open : Close(transport)

Spec == Init /\ [][Next]_vars

(***************************************************************************)
(* The tool handlers.  registerTools gives every tool of tools() one       *)
(* handler: an async function that routes tool.method through a switch to  *)
(* its operation, awaits it, and returns the result (or what it caught) in *)
(* a text envelope.  A transport calls one handler per tools/call message  *)
(* of the POST it was handed; the handlers of one batch run concurrently.  *)
(***************************************************************************)
MaxBatch == 2       \* tool invocations in one batch

\* The case labels of the handler's switch, in the order of the code.
SwitchLabels ==
    <<"get_mcp_server_time", "get_manager_config", "list_topology",
      "get_instance_traffic", "get_service_traffic",
      "get_instance_metrics_timeline", "search_traffic_events",
      "get_traffic_event_details", "get_traffic_event_payload",
      "get_traffic_event_trace", "list_organizations",
      "get_organization", "create_organization", "update_organization",
      "delete_organization", "list_users", "get_user", "create_user",
      "update_user", "delete_user", "list_applications",
      "get_application", "get_api_keys_for_application",
      "create_api_key", "get_oauth_credentials_for_application",
      "create_oauth_credential", "get_permissions_for_application",
      "list_api_proxies", "get_api_proxy",
      "get_proxy_authentication_info", "create_api_proxy",
      "update_api_proxy", "delete_api_proxy", "publish_api",
      "unpublish_api", "deprecate_api", "list_backend_apis",
      "import_backend_api_from_url", "delete_backend_api",
      "import_backend_api_from_file", "upload_file_for_import",
      "list_api_access", "grant_api_access", "revoke_api_access",
      "list_alerts", "update_alert_settings", "get_application_quotas",
      "update_application_quotas", "get_api_catalog", "get_metrics">>

\* The labels as a set: what the switch matches tool.method against.
SwitchCases == {SwitchLabels[k] : k \in DOMAIN SwitchLabels}

\* Mutant: tools() also returns a tool the switch has no case for.
toolsWithUnbound ==
    <<"list_topology", "export_api_collection">>

\* The method names of the tools that tools() returns, in its order.
tools ==
    <<"list_topology", "get_mcp_server_time", "get_instance_traffic",
      "get_service_traffic", "get_instance_metrics_timeline",
      "search_traffic_events", "get_traffic_event_details",
      "get_traffic_event_payload", "get_traffic_event_trace",
      "list_organizations", "get_organization", "create_organization",
      "update_organization", "delete_organization", "list_users",
      "get_user", "create_user", "update_user", "delete_user",
      "list_applications", "get_application",
      "get_api_keys_for_application", "create_api_key",
      "get_oauth_credentials_for_application",
      "create_oauth_credential", "get_permissions_for_application",
      "list_api_proxies", "get_api_proxy", "create_api_proxy",
      "update_api_proxy", "delete_api_proxy", "publish_api",
      "unpublish_api", "deprecate_api", "list_backend_apis",
      "import_backend_api_from_url", "delete_backend_api",
      "import_backend_api_from_file", "list_api_access",
      "grant_api_access", "revoke_api_access", "list_alerts",
      "update_alert_settings", "get_application_quotas",
      "update_application_quotas", "get_api_catalog",
      "upload_file_for_import">>

\* tool.method of the handlers invoked: two tools of tools(), and a name
\* that tools() would hold without a case for it in the switch.
ToolMethods == {"list_topology", "delete_user", "export_api_collection"}

\* What an operation resolves with: an object, given with its JSON text.
Results ==
    {[t |-> "object", text |-> "{\"message\":\"ok\"}"],
     [t |-> "object", text |-> "{\"groups\":[]}"]}

\* What an operation, or the switch, throws: an Error object (the operations
\* throw `new Error(...)` or rethrow what axios rejected with).  structured is
\* error.response?.data?.errors?.[0]?.message, message is error.message.
ErrorValues ==
    [structured : {Undefined, "", "Forbidden"}, message : {"", "Network Error"}]

NoError == [structured |-> Undefined, message |-> Undefined]

\* Mutant: the error of the default branch does not say which tool.
NotImplementedUnnamed(method) ==
    [structured |-> Undefined, message |-> "Tool is not implemented."]

\* new Error(`Tool '${tool.method}' is defined but not implemented in the server.`)
NotImplemented(method) ==
    [structured |-> Undefined,
     message |-> "Tool '" \o method
                     \o "' is defined but not implemented in the server."]

\* Mutant: error.message is preferred to the structured message.
errorMessagePreferPlain(error) ==
    IF Truthy(error.message) THEN error.message
    ELSE IF Truthy(error.structured) THEN error.structured
    ELSE "An unknown error occurred."

\* error.response?.data?.errors?.[0]?.message || error.message || "An unknown ..."
errorMessage(error) ==
    IF Truthy(error.structured) THEN error.structured
    ELSE IF Truthy(error.message) THEN error.message
    ELSE "An unknown error occurred."

\* JSON.stringify of an operation's result, and of { error: <string> } (the
\* messages of the model hold no character that JSON escapes).
JsonStringify(v) ==
    IF v.t = "error" THEN "{\"error\":\"" \o v.error \o "\"}" ELSE v.text

\* { content: [{ type: 'text', text: ... }] }
Envelope(text) == [content |-> <<[type |-> "text", text |-> text]>>]

NoEnvelope == [content |-> <<>>]

\* An invocation of a handler: where it is ("pending": not called yet,
\* "awaiting": at the await of its operation, "returned", "raised"), what it
\* returned, and (history) what its operation or its switch threw.
Invocation(method) ==
    [method |-> method, pc |-> "pending", result |-> NoEnvelope,
     threw |-> FALSE, error |-> NoError]

\* return { content: [{ type: 'text', text: JSON.stringify(result) }] };
toolReturn(inv, result) ==
    [inv EXCEPT !.pc = "returned", !.result = Envelope(JsonStringify(result))]

\* Mutant: a handler without its catch block.
toolRethrow(inv, error) ==
    [inv EXCEPT !.pc = "raised", !.threw = TRUE, !.error = error]

\* The catch block of the handler.
toolCatch(inv, error) ==
    [inv EXCEPT !.pc = "returned", !.threw = TRUE, !.error = error,
                !.result = Envelope(JsonStringify(
                    [t |-> "error",
                     error |-> "Execution failed: " \o errorMessage(error)]))]

\* The handler is called: the switch either calls the operation, whose await
\* suspends the handler, or reaches default, whose throw the catch handles.
ToolCall(i) ==
    /\ invocations[i].pc = "pending"
    /\ invocations' =
         [invocations EXCEPT ![i] =
             IF @.method \in SwitchCases
             THEN [@ EXCEPT !.pc = "awaiting"]
             ELSE toolCatch(@, NotImplemented(@.method))]
    /\ UNCHANGED <<gatewayVars, headerVars>>

\* The awaited operation resolves.
OperationResolved(i) ==
    /\ invocations[i].pc = "awaiting"
    /\ \E result \in Results :
         invocations' = [invocations EXCEPT ![i] = toolReturn(@, result)]
    /\ UNCHANGED <<gatewayVars, headerVars>>

\* Mutant: a rejection fails every invocation of the batch that is awaiting.
OperationRejectedAbortsBatch(i) ==
    /\ invocations[i].pc = "awaiting"
    /\ \E error \in ErrorValues :
         invocations' = [j \in DOMAIN invocations |->
                            IF invocations[j].pc = "awaiting"
                            THEN toolCatch(invocations[j], error)
                            ELSE invocations[j]]
    /\ UNCHANGED <<gatewayVars, headerVars>>

\* The awaited operation rejects.
OperationRejected(i) ==
    /\ invocations[i].pc = "awaiting"
    /\ \E error \in ErrorValues :
         invocations' = [invocations EXCEPT ![i] = toolCatch(@, error)]
    /\ UNCHANGED <<gatewayVars, headerVars>>

\* The gateway when a transport starts on a batch: one session is registered
\* and the POST that carries the batch awaits transport.handleRequest.
BatchStarted ==
    /\ transports = Put(EmptyMap, IdPool[1], 1)
    /\ sessionTimestamps = Put(EmptyMap, IdPool[1], 0)
    /\ uuids = 1
    /\ objects = 1
    /\ open = {1}
    /\ onclose = Put(EmptyMap, 1, IdPool[1])
    /\ now = 0
    /\ calls = SetToBag({Call("transport", 1, Undefined, JsonNull, "POST")})
    /\ last = [NoStep EXCEPT !.op = "dispatch", !.method = "POST",
                   !.sessionId = IdPool[1], !.forwardedTo = 1,
                   !.json = JsonObject("tools/call"),
                   !.payload = JsonObject("tools/call")]
    /\ arrived = 2
    /\ removedIds = {}
    /\ evicted = {}
    /\ lastRequestAt = Put(EmptyMap, IdPool[1], 0)
    /\ argHeaders = EmptyMap
    /\ returned = NotCalled

\* A batch of up to MaxBatch invocations of the handlers of ToolMethods.
ToolInit ==
    /\ BatchStarted
    /\ invocations \in
         UNION {[1..n -> {Invocation(m) : m \in ToolMethods}] : n \in 1..MaxBatch}

\* One invocation of the handler of a tool that tools() returns: forEach
\* registers one handler per element of tools().
RegisteredToolInit ==
    /\ BatchStarted
    /\ invocations \in {<<Invocation(tools[k])>> : k \in DOMAIN tools}

ToolNext ==
    \/ \E i \in DOMAIN invocations : ToolCall(i)
    \/ \E i \in DOMAIN invocations : OperationResolved(i)
    \/ \E i \in DOMAIN invocations : OperationRejected(i)

ToolSpec == ToolInit /\ [][ToolNext]_vars

RegisteredToolSpec == RegisteredToolInit /\ [][ToolNext]_vars

(***************************************************************************)
(* getSessionIdFromHeaders on its own: a method of the server that takes   *)
(* any headers object.  The argument is drawn from the objects that hold   *)
(* the session header under any of the three casings of its name.          *)
(***************************************************************************)
AnyHeaders ==
    UNION {[names -> HeaderValues] : names \in SUBSET HeaderNames}

\* The server as constructed, and the argument of the call.
HeaderInit ==
    /\ transports = EmptyMap
    /\ sessionTimestamps = EmptyMap
    /\ uuids = 0
    /\ objects = 0
    /\ open = {}
    /\ onclose = EmptyMap
    /\ now = 0
    /\ calls = EmptyBag
    /\ last = NoStep
    /\ arrived = 0
    /\ removedIds = {}
    /\ evicted = {}
    /\ lastRequestAt = EmptyMap
    /\ argHeaders \in AnyHeaders
    /\ returned = NotCalled
    /\ invocations = <<>>

CallGetSessionId ==
    /\ returned = NotCalled
    /\ returned' = getSessionIdFromHeaders(argHeaders)
    /\ UNCHANGED <<gatewayVars, argHeaders, toolVars>>

HeaderNext == CallGetSessionId

HeaderSpec == HeaderInit /\ [][HeaderNext]_vars

(***************************************************************************)
(* Vocabulary of the properties.                                           *)
(***************************************************************************)
\* The ids with a session in the registry.
Registered == DOMAIN transports

\* The payload carries the initialize marker: it is an object whose method
\* is "initialize", or a batch that holds one.
HasInitializeMarker(json) ==
    \/ json.t = "object" /\ json.method = "initialize"
    \/ json.t = "array" /\ \E i \in DOMAIN json.items :
                              json.items[i].method = "initialize"

\* The ids issued so far.
Issued == {IdPool[i] : i \in 1..uuids}

\* The ids of the sessions the Reaper evicted.
ReapedIds == {onclose[t] : t \in evicted}

\* The step dispatched a POST (a GET) whose body is empty or parses as JSON.
DispatchedPost ==
    last'.op = "dispatch" /\ last'.method = "POST" /\ ~last'.threw

DispatchedGet ==
    last'.op = "dispatch" /\ last'.method = "GET" /\ ~last'.threw

RegistryUnchanged ==
    transports' = transports /\ sessionTimestamps' = sessionTimestamps

NothingCreated == uuids' = uuids /\ objects' = objects

(***************************************************************************)
(* C1: in every registry state, a POST that carries no session id and      *)
(* whose payload (the parsed body, null for an empty one) has no           *)
(* initialize marker is answered 400 "Invalid request"; the registry is    *)
(* the same after the request as before it, no id or transport is created  *)
(* and no transport receives the payload.                                  *)
(***************************************************************************)
C1_PostWithoutSessionOrInitializeIsRejected ==
    [][(DispatchedPost /\ last'.sessionId = Undefined
                       /\ ~HasInitializeMarker(last'.json))
         => /\ last'.status = 400
            /\ last'.error = "Invalid request"
            /\ DOMAIN transports' = DOMAIN transports
            /\ RegistryUnchanged
            /\ NothingCreated
            /\ last'.forwardedTo = NoTransport
            /\ last'.header = Undefined]_vars

C1_Witness ==
    /\ last.op = "dispatch" /\ last.method = "POST" /\ ~last.threw
    /\ last.sessionId = Undefined
    /\ last.json = JsonObject("tools/call")
    /\ last.status = 400
    /\ Registered # {}

(***************************************************************************)
(* C2: a POST that carries no session id and whose payload has the         *)
(* initialize marker draws one fresh id and builds one new transport and   *)
(* awaits its connection, registering nothing yet; when the connection     *)
(* resolves, exactly that id is added to the registry, bound to that       *)
(* transport, with lastActivity set to the current time, the id is set in  *)
(* the mcp-session-id response header, and the payload is forwarded to     *)
(* that transport.                                                         *)
(***************************************************************************)
C2_InitializeCreatesExactlyOneSession ==
    [][/\ (DispatchedPost /\ last'.sessionId = Undefined
                          /\ HasInitializeMarker(last'.json))
            => /\ last'.status = 0
               /\ last'.generated # Undefined
               /\ last'.generated \notin Registered \cup Issued \cup removedIds
               /\ uuids' = uuids + 1
               /\ objects' = objects + 1
               /\ Call("connect", objects', last'.generated, last'.json, "POST")
                      \in BagToSet(calls')
               /\ RegistryUnchanged
       /\ last'.op = "register"
            => LET id == last'.generated
                   transport == last'.forwardedTo
               IN  /\ Call("connect", transport, id, last'.json, "POST")
                          \in InProgress
                   /\ id \notin Registered
                   /\ \A s \in Registered : transports[s] # transport
                   /\ transports' = Put(transports, id, transport)
                   /\ sessionTimestamps' = Put(sessionTimestamps, id, now)
                   /\ last'.header = id
                   /\ last'.payload = last'.json
                   /\ HasInitializeMarker(last'.payload)
                   /\ NothingCreated]_vars

C2_Witness ==
    /\ last.op = "register"
    /\ last.json = JsonObject("initialize")
    /\ last.header \in Registered
    /\ transports[last.header] = last.forwardedTo
    /\ Cardinality(Registered) = 2

(***************************************************************************)
(* C3: a POST whose session id is registered is a continuation whatever    *)
(* its payload (an initialize payload included): the session's             *)
(* lastActivity becomes the current time, the payload is forwarded to the  *)
(* transport registered under that id, and no id, session or transport is  *)
(* created.                                                                *)
(***************************************************************************)
C3_PostWithRegisteredSessionContinues ==
    [][(DispatchedPost /\ last'.sessionId \in Registered)
         => /\ last'.status = 0
            /\ last'.forwardedTo = transports[last'.sessionId]
            /\ last'.payload = last'.json
            /\ sessionTimestamps' =
                   Put(sessionTimestamps, last'.sessionId, now)
            /\ transports' = transports
            /\ NothingCreated
            /\ last'.generated = Undefined]_vars

C3_Witness ==
    /\ last.op = "dispatch" /\ last.method = "POST"
    /\ last.sessionId \in Registered
    /\ HasInitializeMarker(last.json)
    /\ last.forwardedTo = transports[last.sessionId]
    /\ now > 0
    /\ sessionTimestamps[last.sessionId] = now

(***************************************************************************)
(* C4: a POST whose session id is not registered is rejected with 400      *)
(* "Invalid session ID" whatever its payload: nothing is created, no       *)
(* transport receives the payload and the registry is unchanged.           *)
(***************************************************************************)
C4_PostWithUnknownSessionIsRejected ==
    [][(DispatchedPost /\ Truthy(last'.sessionId)
                       /\ last'.sessionId \notin Registered)
         => /\ last'.status = 400
            /\ last'.error = "Invalid session ID"
            /\ last'.forwardedTo = NoTransport
            /\ NothingCreated
            /\ RegistryUnchanged]_vars

(***************************************************************************)
(* C5: a GET whose session id is registered is handed to the transport     *)
(* registered under that id and is not rejected; no session is created,    *)
(* replaced or removed, and the session is still registered afterwards.    *)
(***************************************************************************)
C5_GetWithRegisteredSessionAttaches ==
    [][(DispatchedGet /\ last'.sessionId \in Registered)
         => /\ last'.status = 0
            /\ last'.forwardedTo = transports[last'.sessionId]
            /\ RegistryUnchanged
            /\ NothingCreated
            /\ last'.sessionId \in DOMAIN transports']_vars

C5_Witness ==
    /\ last.op = "dispatch" /\ last.method = "GET"
    /\ last.sessionId \in Registered
    /\ last.forwardedTo = transports[last.sessionId]
    /\ last.status = 0

(***************************************************************************)
(* C6: a GET that carries no session id, or whose session id is not        *)
(* registered, is rejected with 400, leaves the registry unchanged and is  *)
(* forwarded to no transport.                                              *)
(***************************************************************************)
C6_GetWithoutRegisteredSessionIsRejected ==
    [][(DispatchedGet /\ last'.sessionId \notin Registered)
         => /\ last'.status = 400
            /\ last'.forwardedTo = NoTransport
            /\ RegistryUnchanged]_vars

(***************************************************************************)
(* C7: every request whose verb is neither GET nor POST is answered 405    *)
(* with the header Allow: GET, POST, for every combination of headers and  *)
(* body, and leaves the registry unchanged.                                *)
(***************************************************************************)
C7_OtherVerbsAreAnswered405 ==
    [][(last'.op = "dispatch" /\ last'.method \notin {"GET", "POST"})
         => /\ last'.status = 405
            /\ last'.allow = "GET, POST"
            /\ RegistryUnchanged]_vars

C9_EvictedTransportsAreClosed ==
    last.op = "sweep" => \A t \in evicted : t \notin open

(***************************************************************************)
(* C10: an id that has been removed from the registry (by the Reaper or by *)
(* the closure of its transport) is never registered again: it stays       *)
(* absent from both maps, no later id generation yields it, and every      *)
(* later POST or GET bearing it is rejected and reaches no transport.      *)
(***************************************************************************)
C10_RemovedIdsAreNeverReused ==
    /\ removedIds \cap (DOMAIN transports \cup DOMAIN sessionTimestamps) = {}
    /\ \A c \in InProgress : c.pc = "connect" => c.gen \notin removedIds
    /\ last.generated # Undefined => last.generated \notin removedIds
    /\ (last.op = "dispatch" /\ last.sessionId \in removedIds)
         => /\ last.status = 400
            /\ last.forwardedTo = NoTransport

C10_Witness ==
    /\ last.op = "register"
    /\ removedIds # {}
    /\ last.generated \in Registered \ removedIds

\* The invocations parked at `await this.connect(transport)`.
Connecting(bag) == {c \in BagToSet(bag) : c.pc = "connect"}

\* Session s has the same entry after the step as before it.
EntryUnchanged(s) ==
    /\ s \in DOMAIN transports' /\ transports'[s] = transports[s]
    /\ s \in DOMAIN sessionTimestamps'
    /\ sessionTimestamps'[s] = sessionTimestamps[s]

(***************************************************************************)
(* C11: in every interleaving of initialize POSTs, the requests that are   *)
(* awaiting their connection at the same time hold pairwise distinct ids   *)
(* and distinct transports, none of them registered yet; when a            *)
(* connection resolves, the request's own id is added, it is returned in   *)
(* the response header, and every entry registered before is still there   *)
(* with the same transport and timestamp.                                  *)
(***************************************************************************)
C11_ConcurrentInitializesGetDistinctSessions ==
    [][/\ \A c \in Connecting(calls') :
            /\ CopiesIn(c, calls') = 1
            /\ c.gen \notin DOMAIN transports'
            /\ \A d \in Connecting(calls') :
                   c # d => c.gen # d.gen /\ c.tr # d.tr
       /\ last'.op = "register"
            => /\ last'.generated \notin Registered
               /\ last'.generated \in DOMAIN transports'
               /\ last'.header = last'.generated
               /\ transports'[last'.generated] = last'.forwardedTo
               /\ \A s \in Registered : EntryUnchanged(s)
               /\ Connecting(calls') \subseteq Connecting(calls)]_vars

C11_Witness ==
    /\ last.op = "register"
    /\ Cardinality(Registered) = 2
    /\ Connecting(calls) # {}

(***************************************************************************)
(* C12: a request bearing session id A (or none), the closure of A's       *)
(* transport, and a sweep that finds another session B not idle beyond the *)
(* timeout leave B's entry unchanged: B is still registered, bound to the  *)
(* same transport, with the same lastActivity.                             *)
(***************************************************************************)
C12_OtherSessionsAreUntouched ==
    [][\A B \in Registered :
          /\ (last'.op \in {"dispatch", "close"} /\ last'.sessionId # B)
               => EntryUnchanged(B)
          /\ (last'.op = "sweep" /\ now - sessionTimestamps[B] <= maxAge)
               => EntryUnchanged(B)]_vars

C12_Witness ==
    /\ last.op = "dispatch" /\ last.method = "POST"
    /\ last.sessionId \in Registered
    /\ last.forwardedTo = transports[last.sessionId]
    /\ \E B \in Registered \ {last.sessionId} : sessionTimestamps[B] < now

\* The invocations of the batch that have returned.
Returned == {i \in DOMAIN invocations : invocations[i].pc = "returned"}

\* { content: [{ type: 'text', text: <a string> }] }
HasEnvelopeShape(result) ==
    /\ DOMAIN result = {"content"}
    /\ Len(result.content) = 1
    /\ DOMAIN result.content[1] = {"type", "text"}
    /\ result.content[1].type = "text"

\* The messages an error text can carry for the errors of the model.
FailureMessages ==
    {"Forbidden", "Network Error", "An unknown error occurred."}
    \cup {"Tool '" \o m \o "' is defined but not implemented in the server." :
              m \in ToolMethods}

\* The JSON text of an object whose only member, error, is a failure message.
IsErrorText(text) ==
    \E m \in FailureMessages :
        text = "{\"error\":\"Execution failed: " \o m \o "\"}"

IsSuccessText(text) == text \in {"{\"message\":\"ok\"}", "{\"groups\":[]}"}

(***************************************************************************)
(* C13: a tool handler never raises: whatever Error its operation (or its  *)
(* switch) throws, the handler returns, and what it returns has the shape  *)
(* of a success envelope, one text item, whose text is the JSON of an      *)
(* error object.                                                           *)
(***************************************************************************)
C13_ToolHandlerNeverRaises ==
    \A i \in DOMAIN invocations :
        LET inv == invocations[i]
        IN  /\ inv.pc \in {"pending", "awaiting", "returned"}
            /\ inv.threw
                 => /\ inv.pc = "returned"
                    /\ HasEnvelopeShape(inv.result)
                    /\ IsErrorText(inv.result.content[1].text)
            /\ (inv.pc = "returned" /\ ~inv.threw)
                 => HasEnvelopeShape(inv.result)

C13_Witness ==
    \E i \in Returned :
        /\ invocations[i].method \in SwitchCases
        /\ invocations[i].threw
        /\ invocations[i].error.structured = "Forbidden"
        /\ IsErrorText(invocations[i].result.content[1].text)

(***************************************************************************)
(* C14: the invocations of one batch are resolved independently: a step of *)
(* one invocation leaves every sibling as it was, no invocation is dropped *)
(* from the batch, a result once returned is never altered, and each       *)
(* result is an error result exactly when that invocation's own operation  *)
(* (or switch) threw, a success result otherwise.                          *)
(***************************************************************************)
C14_BatchInvocationsAreIndependent ==
    [][/\ DOMAIN invocations' = DOMAIN invocations
       /\ \E i \in DOMAIN invocations :
             \A j \in DOMAIN invocations \ {i} : invocations'[j] = invocations[j]
       /\ \A i \in Returned : invocations'[i] = invocations[i]
       /\ \A i \in DOMAIN invocations' :
             LET inv == invocations'[i]
             IN  inv.pc = "returned"
                   => IF inv.threw
                      THEN /\ IsErrorText(inv.result.content[1].text)
                           /\ ~IsSuccessText(inv.result.content[1].text)
                      ELSE IsSuccessText(inv.result.content[1].text)]_vars

C14_Witness ==
    /\ Len(invocations) = 2
    /\ Returned = {1, 2}
    /\ \E i, j \in Returned :
          /\ invocations[i].method \in SwitchCases /\ invocations[i].threw
          /\ IsErrorText(invocations[i].result.content[1].text)
          /\ ~invocations[j].threw
          /\ IsSuccessText(invocations[j].result.content[1].text)

(***************************************************************************)
(* C15: every request routed to a registered session, a POST continuation  *)
(* and a GET reattachment alike, sets that session's lastActivity to the   *)
(* time the request is received.                                           *)
(***************************************************************************)
C15_RoutedRequestsTouchTheSession ==
    [][((DispatchedPost \/ DispatchedGet) /\ last'.sessionId \in Registered
            /\ last'.forwardedTo # NoTransport)
         => /\ last'.sessionId \in DOMAIN sessionTimestamps'
            /\ sessionTimestamps'[last'.sessionId] = now]_vars

(***************************************************************************)
(* C16: while a session stays registered its lastActivity never decreases, *)
(* and it changes only in the step that dispatches a POST bearing that     *)
(* session's id; a session's first lastActivity is written by the step     *)
(* that registers it, as the current time; sweeps, closures, clock ticks   *)
(* and the other steps of a request write no timestamp.                    *)
(***************************************************************************)
C16_LastActivityIsMonotonic ==
    [][/\ \A s \in Registered \cap DOMAIN transports' :
            /\ sessionTimestamps'[s] >= sessionTimestamps[s]
            /\ sessionTimestamps'[s] # sessionTimestamps[s]
                 => DispatchedPost /\ last'.sessionId = s
       /\ \A s \in DOMAIN transports' \ Registered :
            /\ last'.op = "register" /\ last'.generated = s
            /\ sessionTimestamps'[s] = now
       /\ last'.op \notin {"dispatch", "register"}
            => \A s \in DOMAIN sessionTimestamps' :
                  /\ s \in DOMAIN sessionTimestamps
                  /\ sessionTimestamps'[s] = sessionTimestamps[s]]_vars

C16_Witness ==
    /\ last.op = "dispatch" /\ last.method = "POST" /\ last.status = 0
    /\ last.sessionId \in Registered
    /\ now = MaxTicks * TickMs
    /\ sessionTimestamps[last.sessionId] = now

(***************************************************************************)
(* C17: removal is idempotent and the two removal paths converge: the      *)
(* onclose callback of a transport and the Reaper's sweep never raise;     *)
(* after the callback its id is in neither map, whether or not the Reaper  *)
(* had removed it before, and every other entry is as it was; on an id     *)
(* that is already absent the callback changes nothing; a sweep leaves     *)
(* every removed id absent from both maps and changes nothing when no      *)
(* timestamp is older than the timeout.                                    *)
(***************************************************************************)
C17_RemovalIsIdempotent ==
    [][/\ last'.op = "close"
            => LET id == last'.sessionId
               IN  /\ last'.status = 0
                   /\ DOMAIN transports' = DOMAIN transports \ {id}
                   /\ DOMAIN sessionTimestamps' = DOMAIN sessionTimestamps \ {id}
                   /\ \A s \in Registered \ {id} : EntryUnchanged(s)
                   /\ id \notin Registered => RegistryUnchanged
       /\ last'.op = "sweep"
            => /\ last'.status = 0
               /\ \A id \in removedIds' :
                     id \notin DOMAIN transports' \cup DOMAIN sessionTimestamps'
               /\ (\A s \in DOMAIN sessionTimestamps :
                       now - sessionTimestamps[s] <= maxAge)
                     => RegistryUnchanged]_vars

C17_Witness ==
    /\ last.op = "close"
    /\ last.sessionId \in ReapedIds
    /\ Registered # {}
    /\ last.sessionId \notin DOMAIN transports \cup DOMAIN sessionTimestamps

\* The number of POSTs that bore the id of transport tr's session and are
\* awaiting tr.handleRequest.
AwaitingPosts(tr) ==
    CopiesIn(Call("transport", tr, Undefined, JsonNull, "POST"), calls)

(***************************************************************************)
(* C18: requests bearing the same session id are never in progress at the  *)
(* same time: no transport has two POSTs that bore its session's id both   *)
(* awaiting its handleRequest.                                             *)
(***************************************************************************)
C18_SameSessionRequestsAreSerialized ==
    \A tr \in 1..objects : AwaitingPosts(tr) <= 1

\* The names under which the argument holds a non-empty session header.
PresentNames == {n \in DOMAIN argHeaders \cap HeaderNames : argHeaders[n] # ""}

CalledUnbound(batch) ==
    {i \in DOMAIN batch : batch[i].method \notin SwitchCases
                            /\ batch[i].pc # "pending"}

(***************************************************************************)
(* C20: an invocation whose method has no case in the handler's switch     *)
(* fails loudly and alone: its handler returns at once an error result     *)
(* whose text names the tool, never a success text and never nothing; the  *)
(* step leaves the other invocations of the batch as they were, so they    *)
(* are still served, and leaves the session registry and the requests in   *)
(* progress unchanged.                                                     *)
(***************************************************************************)
C20_UnboundToolFailsLoudly ==
    [][\A i \in CalledUnbound(invocations') :
          LET inv == invocations'[i]
              text == inv.result.content[1].text
          IN  /\ inv.pc = "returned" /\ inv.threw
              /\ HasEnvelopeShape(inv.result)
              /\ text = "{\"error\":\"Execution failed: Tool '" \o inv.method
                          \o "' is defined but not implemented in the server.\"}"
              /\ ~IsSuccessText(text)
              /\ i \notin CalledUnbound(invocations)
                   => /\ \A j \in DOMAIN invocations \ {i} :
                            invocations'[j] = invocations[j]
                      /\ UNCHANGED gatewayVars]_vars

C20_Witness ==
    /\ CalledUnbound(invocations) # {}
    /\ Registered # {}
    /\ \E j \in Returned : j > 1 /\ j - 1 \in CalledUnbound(invocations)
                            /\ invocations[j].method \in SwitchCases
                            /\ ~invocations[j].threw

(***************************************************************************)
(* C21: in every reachable state the transport map is injective: each      *)
(* registered id is bound to one transport object, one that was built and  *)
(* whose onclose captured that id, and no transport object is bound to two *)
(* ids.                                                                    *)
(***************************************************************************)
C21_TransportMapIsInjective ==
    /\ \A s \in Registered :
          /\ transports[s] \in 1..objects
          /\ transports[s] \in DOMAIN onclose
          /\ onclose[transports[s]] = s
    /\ \A s, t \in Registered : s # t => transports[s] # transports[t]

C21_Witness ==
    /\ Cardinality(Registered) = MaxRequests
    /\ Cardinality({transports[s] : s \in Registered}) = MaxRequests

(***************************************************************************)
(* C22 (README, "Passo 3"): a GET whose session id is not in the transport *)
(* map, or that carries no session id, is answered 405 Method Not Allowed. *)
(***************************************************************************)
C22_GetWithoutSessionIsAnswered405 ==
    [][(DispatchedGet /\ last'.sessionId \notin Registered)
         => /\ last'.status = 405
            /\ last'.error = "Method Not Allowed"]_vars

\* The step dispatched a POST whose session id passed the lookup of the
\* continuation path, `sessionId && this.transports[sessionId]`.
PassedLookup ==
    /\ DispatchedPost
    /\ Truthy(last'.sessionId)
    /\ HasTruthy(transports, last'.sessionId)

(***************************************************************************)
(* C23: in the POST continuation path the lookup, the touch and the start  *)
(* of forwarding are one step, so the Reaper cannot remove the session in  *)
(* between: every POST that passes the lookup is forwarded, in that same   *)
(* step, to the transport registered under its id, which is still          *)
(* registered after the step, with lastActivity set to the current time.   *)
(***************************************************************************)
C23_LookupTouchForwardIsAtomic ==
    [][PassedLookup
         => /\ last'.sessionId \in Registered
            /\ last'.forwardedTo = transports[last'.sessionId]
            /\ last'.sessionId \in DOMAIN transports'
            /\ transports'[last'.sessionId] = last'.forwardedTo
            /\ sessionTimestamps'[last'.sessionId] = now
            /\ Call("transport", last'.forwardedTo, Undefined, JsonNull, "POST")
                   \in BagToSet(calls')]_vars

(***************************************************************************)
(* C24: in every state between two steps (the states a suspended request   *)
(* can observe) the transport map and the timestamp map have the same key  *)
(* set: no session has a transport without a timestamp or a timestamp      *)
(* without a transport.                                                    *)
(***************************************************************************)
C24_MapsHaveTheSameKeys ==
    DOMAIN transports = DOMAIN sessionTimestamps

(***************************************************************************)
(* C25: a sweep removes a session only when its idle time strictly exceeds *)
(* the timeout: every session whose lastActivity is at most 30 minutes old *)
(* at the sweep (exactly 30 minutes included) keeps its entry, and every   *)
(* session the sweep removes had a lastActivity more than 30 minutes old.  *)
(***************************************************************************)
C25_SweepEvictsOnlyBeyondTimeout ==
    [][last'.op = "sweep"
         => /\ \A s \in Registered :
                  now - sessionTimestamps[s] <= 30 * 60 * 1000
                    => EntryUnchanged(s)
            /\ \A s \in Registered \ DOMAIN transports' :
                  now - sessionTimestamps[s] > 30 * 60 * 1000]_vars

C25_Witness ==
    /\ last.op = "sweep"
    /\ removedIds # {}
    /\ \E s \in Registered : now - sessionTimestamps[s] = 30 * 60 * 1000

\* Present and non-empty.
NonEmpty(v) == v # Undefined /\ v # ""

(***************************************************************************)
(* C26: the error text of a failed invocation is chosen by strict          *)
(* preference: the structured message error.response.data.errors[0].message*)
(* when present and non-empty, otherwise error.message when non-empty,     *)
(* otherwise 'An unknown error occurred.'; the result text is the JSON of  *)
(* { error: 'Execution failed: ' + the chosen message }.                   *)
(***************************************************************************)
C26_ErrorTextFollowsPreference ==
    \A i \in Returned :
        LET inv == invocations[i]
            chosen == IF NonEmpty(inv.error.structured)
                        THEN inv.error.structured
                      ELSE IF NonEmpty(inv.error.message)
                        THEN inv.error.message
                      ELSE "An unknown error occurred."
        IN  inv.threw
              => /\ Len(inv.result.content) = 1
                 /\ inv.result.content[1].text =
                      "{\"error\":\"Execution failed: " \o chosen \o "\"}"

C26_Witness ==
    \E i, j \in Returned :
        /\ invocations[i].threw
        /\ invocations[i].error =
             [structured |-> "Forbidden", message |-> "Network Error"]
        /\ invocations[i].result.content[1].text =
             "{\"error\":\"Execution failed: Forbidden\"}"
        /\ invocations[j].threw
        /\ invocations[j].error = [structured |-> "", message |-> ""]
        /\ invocations[j].result.content[1].text =
             "{\"error\":\"Execution failed: An unknown error occurred.\"}"

\* The cases of the switch whose label is the method name.
MatchingCases(method) ==
    {k \in DOMAIN SwitchLabels : SwitchLabels[k] = method}

(***************************************************************************)
(* C27: every method name returned by tools() has exactly one matching     *)
(* case in the handler's switch, so no invocation of a registered tool     *)
(* reaches the 'defined but not implemented' default branch.               *)
(***************************************************************************)
C27_EveryRegisteredToolIsBound ==
    /\ \A k \in DOMAIN tools : Cardinality(MatchingCases(tools[k])) = 1
    /\ \A i \in DOMAIN invocations :
          /\ \E k \in DOMAIN tools : invocations[i].method = tools[k]
          /\ invocations[i].error # NotImplemented(invocations[i].method)
          /\ invocations[i].pc = "returned"
               => invocations[i].result.content[1].text
                    # "{\"error\":\"Execution failed: Tool '"
                        \o invocations[i].method
                        \o "' is defined but not implemented in the server.\"}"

C27_Witness ==
    /\ \E i \in Returned :
          /\ invocations[i].method = "upload_file_for_import"
          /\ MatchingCases(invocations[i].method) = {41}
          /\ ~invocations[i].threw
          /\ IsSuccessText(invocations[i].result.content[1].text)

(***************************************************************************)
(* C28: an initialize POST that ends in an error, whether the connect of   *)
(* the new transport rejects or the forwarding of the initialize payload   *)
(* to the new transport rejects, leaves no session registered under the    *)
(* generated id.                                                           *)
(***************************************************************************)
C28_FailedInitializeRegistersNothing ==
    [][\A c \in InProgress :
          (/\ c.gen # Undefined
           /\ calls' = Return(c)
           /\ last'.status = 500)
            => c.gen \notin DOMAIN transports']_vars

\* The dispositions a step gives the request it handles: delegation to a
\* transport, or the status of the response the gateway writes.
Dispositions(ev) ==
    {"delegated" : x \in {ev.forwardedTo} \ {NoTransport}}
    \cup {"400" : x \in {ev.status} \cap {400}}
    \cup {"405" : x \in {ev.status} \cap {405}}
    \cup {"500" : x \in {ev.status} \cap {500}}

(***************************************************************************)
(* C29: every request ends in exactly one disposition: it is delegated to  *)
(* exactly one transport, or answered 400, or 405, or (when handling       *)
(* raises) 500.  The run of handleRequest from the parsed body gives the   *)
(* request one disposition, or suspends it at the connect of a new         *)
(* transport; the resumption after connect gives it one; an invocation     *)
(* that ends having been delegated is given no response by the gateway,    *)
(* and one that ends without delegation ends with a response.              *)
(***************************************************************************)
C29_ExactlyOneDisposition ==
    [][/\ last'.op = "dispatch"
            => \/ Cardinality(Dispositions(last')) = 1
               \/ /\ Dispositions(last') = {}
                  /\ Connecting(calls') # Connecting(calls)
       /\ last'.op = "register" => Dispositions(last') = {"delegated"}
       /\ \A c \in InProgress :
             calls' = Return(c)
               => IF c.pc = "transport"
                  THEN Dispositions(last') = {}
                  ELSE /\ Cardinality(Dispositions(last')) = 1
                       /\ "delegated" \notin Dispositions(last')]_vars

\* The ids whose timestamp a step overwrites.
Overwritten ==
    {s \in DOMAIN sessionTimestamps \cap DOMAIN sessionTimestamps' :
         sessionTimestamps'[s] # sessionTimestamps[s]}

(***************************************************************************)
(* C30: the registry changes only through three actions: an entry is added *)
(* only by a POST without session id that carries an initialize payload;   *)
(* an entry is removed only by a sweep or by the onclose of that entry's   *)
(* transport; a timestamp is overwritten only by a POST continuation on    *)
(* that id.  Every rejected request (400, 405, 500) leaves both maps       *)
(* unchanged.                                                              *)
(***************************************************************************)
C30_RegistryChangesOnlyThroughThreeActions ==
    [][/\ \A s \in (DOMAIN transports' \ DOMAIN transports)
                     \cup (DOMAIN sessionTimestamps' \ DOMAIN sessionTimestamps) :
             /\ last'.op = "register"
             /\ last'.method = "POST"
             /\ last'.generated = s
             /\ isInitializeRequest(last'.json)
       /\ \A s \in (DOMAIN transports \ DOMAIN transports')
                     \cup (DOMAIN sessionTimestamps \ DOMAIN sessionTimestamps') :
             \/ last'.op = "sweep"
             \/ last'.op = "close" /\ last'.sessionId = s
       /\ \A s \in Overwritten :
             /\ last'.op = "dispatch"
             /\ last'.method = "POST"
             /\ last'.sessionId = s
             /\ last'.forwardedTo # NoTransport
       /\ last'.status \in {400, 405, 500} => RegistryUnchanged]_vars

====
